---- MODULE Spec2Model ----
(***************************************************************************)
(* Model of src/main.rs: the manifest selector (parse_manifest), the       *)
(* filtered copier (copy_dir), the artifact assembler                      *)
(* (copy_encore_components) and the pipeline driver (main).                *)
(*                                                                         *)
(* Strings that the code inspects character by character (layer digests,   *)
(* relative paths, exclusion strings) are sequences of one-character       *)
(* strings, so that prefix tests and slicing are computed, not assumed.    *)
(***************************************************************************)
EXTENDS Integers, Sequences, FiniteSets, TLC

VARIABLES
    \* ---- parse_manifest ----
    mpc,            \* position inside parse_manifest
    docKind,        \* what File::open / from_reader find at manifest_path
    manifest,       \* the parsed Vec<Value>: the LayerSources value of each entry
    layer_sources,  \* &manifest[0]["LayerSources"]
    idx,            \* position of the for loop in the mapping
    largest_layer,  \* Option<String>
    largest_size,   \* u64
    mresult,        \* outcome of parse_manifest
    moutput,        \* the String of an Ok result
    \* ---- copy_dir ----
    cpc,            \* position inside copy_dir
    srcRoot,        \* kind of the path `src`
    srcTree,        \* kind of every relative path under src
    exclusions,     \* Option<&[&str]>
    dstRoot,        \* kind of the path `dst`
    dstTree,        \* kind of every relative path under dst
    dstRoot0,       \* dstRoot when copy_dir was called
    dstTree0,       \* dstTree when copy_dir was called
    visited,        \* entries WalkDir has yielded so far
    last,           \* the entry WalkDir yielded last
    copyFailed,     \* files whose fs::copy returned Err
    dirFailed,      \* a create_dir_all returned Err
    walkFailed,     \* WalkDir yielded an Err entry
    cresult,        \* outcome of copy_dir
    \* ---- copy_encore_components ----
    apc,            \* position inside copy_encore_components
    encoreKind,     \* kind of encore_dir
    configKind,     \* kind of <parent>/workspace/apps/encore/.encore
    subKind,        \* kind of every expected subpath
    outTree,        \* kind of every target under output_dir
    fileIdx,        \* position of the loop over the named files
    ioFault,        \* a filesystem call of the assembler returned Err
    aresult,        \* outcome of copy_encore_components
    \* ---- main ----
    pc,             \* position inside main
    fs,             \* the directories and files main creates and removes
    fs0,            \* fs when main started
    image,          \* the docker image exists
    encoreAt,       \* where the extracted layer holds an `encore` directory
    found,          \* the `encore` directories the search has handled
    log,            \* the steps main has run, with their outcomes
    exitCode        \* the process exit status, -1 while running

mvars == <<mpc, docKind, manifest, layer_sources, idx, largest_layer,
           largest_size, mresult, moutput>>
cvars == <<cpc, srcRoot, srcTree, exclusions, dstRoot, dstTree, dstRoot0,
           dstTree0, visited, last, copyFailed, dirFailed, walkFailed, cresult>>
avars == <<apc, encoreKind, configKind, subKind, outTree, fileIdx, ioFault,
           aresult>>
pvars == <<pc, fs, fs0, image, encoreAt, found, log, exitCode>>
vars == <<mvars, cvars, avars, pvars>>

(***************************************************************************)
(* Strings as character sequences.                                         *)
(***************************************************************************)
\* str::starts_with
StartsWith(s, p) ==
    /\ Len(p) <= Len(s)
    /\ SubSeq(s, 1, Len(p)) = p

\* the literal "sha256:" of parse_manifest
Sha256Prefix == <<"s", "h", "a", "2", "5", "6", ":">>

\* digest[7..]
StripLen == 7

(***************************************************************************)
(* parse_manifest                                                          *)
(***************************************************************************)
MaxLayers == 3
MaxSize == 2

\* the layer identifiers the manifests of the model use:
\* "sha256:a", "SHA256:a", "sha256a", "b"
Digests ==
    { Sha256Prefix \o <<"a">>,
      <<"S", "H", "A", "2", "5", "6", ":", "a">>,
      <<"s", "h", "a", "2", "5", "6", "a">>,
      <<"b">> }

\* the values a layer's "size" field can have: missing, a JSON string,
\* a negative number, or a non-negative integer
SizeValues ==
    { [t |-> "absent", v |-> 0], [t |-> "string", v |-> 0], [t |-> "int", v |-> -1] }
    \cup { [t |-> "int", v |-> n] : n \in 0..MaxSize }

\* variant: a negative size read by its magnitude (as_i64 and a cast)
AsU64Magnitude(size) ==
    IF size.t = "int"
    THEN [some |-> TRUE, v |-> IF size.v < 0 THEN 0 - size.v ELSE size.v]
    ELSE [some |-> FALSE, v |-> 0]

\* info.get("size").and_then(|s| s.as_u64())
NoneU64 == [some |-> FALSE, v |-> 0]
AsU64(size) ==
    IF size.t = "int" /\ size.v >= 0
    THEN [some |-> TRUE, v |-> size.v]
    ELSE NoneU64

\* a mapping in its iteration order: a sequence of (digest, info) pairs with
\* pairwise distinct digests
Mappings ==
    UNION { { m \in [1..n -> [digest : Digests, size : SizeValues]] :
                \A i, j \in 1..n : i # j => m[i].digest # m[j].digest }
            : n \in 0..MaxLayers }

NullValue == [t |-> "null", m |-> <<>>]
\* the value of manifest[0]["LayerSources"]: Null when the field is absent or
\* the entry is not an object, some other JSON value, or an object
LayerSourcesValues ==
    { NullValue, [t |-> "string", m |-> <<>>] }
    \cup { [t |-> "object", m |-> m] : m \in Mappings }

NoneString == [some |-> FALSE, v |-> <<>>]

MInit ==
    /\ mpc = "start"
    /\ docKind \in {"nofile", "notjson", "notarray", "array"}
    /\ \/ /\ docKind = "array"
          /\ \/ manifest = <<>>
             \/ \E ls \in LayerSourcesValues : manifest = <<ls>>
             \/ \E ls \in {NullValue, [t |-> "object", m |-> <<>>]} :
                    manifest = <<ls, [t |-> "object",
                        m |-> <<[digest |-> <<"b">>, size |-> [t |-> "int", v |-> 1]]>>]>>
       \/ /\ docKind # "array"
          /\ manifest = <<>>
    /\ layer_sources = NullValue
    /\ idx = 1
    /\ largest_layer = NoneString
    /\ largest_size = 0
    /\ mresult = "none"
    /\ moutput = <<>>

MIdle ==
    /\ mpc = "idle"
    /\ docKind = "nofile"
    /\ manifest = <<>>
    /\ layer_sources = NullValue
    /\ idx = 1
    /\ largest_layer = NoneString
    /\ largest_size = 0
    /\ mresult = "none"
    /\ moutput = <<>>

\* File::open(manifest_path)? and from_reader(file)? into a Vec<Value>
ParseRead ==
    /\ mpc = "start"
    /\ IF docKind = "nofile"
       THEN /\ mpc' = "done"
            /\ mresult' = "IoError"
       ELSE IF docKind # "array"
       THEN /\ mpc' = "done"
            /\ mresult' = "ParseError"
       ELSE /\ mpc' = "index"
            /\ UNCHANGED mresult
    /\ UNCHANGED <<docKind, manifest, layer_sources, idx, largest_layer,
                   largest_size, moutput>>

\* &manifest[0]["LayerSources"]: indexing an empty Vec panics
ParseIndex ==
    /\ mpc = "index"
    /\ IF Len(manifest) = 0
       THEN /\ mpc' = "done"
            /\ mresult' = "panic"
            /\ UNCHANGED <<layer_sources, largest_layer, largest_size>>
       ELSE /\ mpc' = "loop"
            /\ layer_sources' = manifest[1]
            /\ largest_layer' = NoneString
            /\ largest_size' = 0
            /\ UNCHANGED mresult
    /\ UNCHANGED <<docKind, manifest, idx, moutput>>

\* size > largest_size
Replaces(size, largest) == size > largest

\* one iteration of `for (digest, info) in sources`, or the end of the loop
ParseLoop ==
    /\ mpc = "loop"
    /\ IF layer_sources.t = "object" /\ idx <= Len(layer_sources.m)
       THEN LET e == layer_sources.m[idx]
                size == AsU64(e.size)
            IN  /\ IF size.some /\ Replaces(size.v, largest_size)
                   THEN /\ largest_size' = size.v
                        /\ largest_layer' = [some |-> TRUE, v |-> e.digest]
                   ELSE UNCHANGED <<largest_size, largest_layer>>
                /\ idx' = idx + 1
                /\ UNCHANGED mpc
       ELSE /\ mpc' = "finish"
            /\ UNCHANGED <<idx, largest_size, largest_layer>>
    /\ UNCHANGED <<docKind, manifest, layer_sources, mresult, moutput>>

\* the result expression: digest[7..] when digest.starts_with("sha256:")
StripDigest(digest) ==
    IF StartsWith(digest, Sha256Prefix)
    THEN SubSeq(digest, StripLen + 1, Len(digest))
    ELSE digest

\* largest_layer.ok_or("No layer sources found")? and the Ok(...) result
ParseFinish ==
    /\ mpc = "finish"
    /\ mpc' = "done"
    /\ IF largest_layer.some
       THEN /\ mresult' = "Ok"
            /\ moutput' = StripDigest(largest_layer.v)
       ELSE /\ mresult' = "NoLayersFound"
            /\ UNCHANGED moutput
    /\ UNCHANGED <<docKind, manifest, layer_sources, idx, largest_layer,
                   largest_size>>

MNext == ParseRead \/ ParseIndex \/ ParseLoop \/ ParseFinish

(***************************************************************************)
(* copy_dir                                                                *)
(***************************************************************************)
MaxExcl == 2

\* file names: "a", "ab" (which merely begins with "a") and "c"
NameA == <<"a">>
NameAB == <<"a", "b">>
NameC == <<"c">>

\* the relative paths the trees of the model are made of, as component lists:
\* a, ab, c, a/c, ab/c, a/c/c
RelPaths ==
    { <<NameA>>, <<NameAB>>, <<NameC>>, <<NameA, NameC>>, <<NameAB, NameC>>,
      <<NameA, NameC, NameC>> }

Kinds == {"none", "file", "dir"}

Parent(p) == SubSeq(p, 1, Len(p) - 1)

\* Path::to_string_lossy of a relative path: the components joined by '/'
RECURSIVE PathStr(_)
PathStr(p) ==
    IF Len(p) = 0 THEN <<>>
    ELSE IF Len(p) = 1 THEN p[1]
    ELSE PathStr(Parent(p)) \o <<"/">> \o p[Len(p)]

\* the trees a file system can hold: an entry exists only inside a directory
Trees ==
    { t \in [RelPaths -> Kinds] :
        \A p \in RelPaths :
            (t[p] # "none" /\ Len(p) > 1) => t[Parent(p)] = "dir" }

EmptyTree == [p \in RelPaths |-> "none"]

\* the exclusion strings callers pass: "a", "ab", "c", "a/c", "a/"
ExclusionStrings ==
    { <<"a">>, <<"a", "b">>, <<"c">>, <<"a", "/", "c">>, <<"a", "/">> }

\* Option<&[&str]>
ExclusionArgs ==
    { [some |-> FALSE, list |-> {}] }
    \cup { [some |-> TRUE, list |-> l] :
             l \in { x \in SUBSET ExclusionStrings : Cardinality(x) <= MaxExcl } }

\* what the destination holds before the call: nothing, an empty directory,
\* a directory with earlier content, or a file in the way
DstBefore ==
    { <<"none", EmptyTree>>,
      <<"dir", EmptyTree>>,
      <<"file", EmptyTree>>,
      <<"dir", [EmptyTree EXCEPT ![<<NameC>>] = "file"]>>,
      <<"dir", [EmptyTree EXCEPT ![<<NameA>>] = "file"]>>,
      <<"dir", [EmptyTree EXCEPT ![<<NameAB>>] = "dir"]>> }

CInit ==
    /\ cpc = "start"
    /\ srcRoot \in Kinds
    /\ IF srcRoot = "dir" THEN srcTree \in Trees ELSE srcTree = EmptyTree
    /\ exclusions \in ExclusionArgs
    /\ \E d \in DstBefore :
          /\ dstRoot = d[1]
          /\ dstTree = d[2]
    /\ dstRoot0 = dstRoot
    /\ dstTree0 = dstTree
    /\ visited = {}
    /\ last = <<>>
    /\ copyFailed = {}
    /\ dirFailed = FALSE
    /\ walkFailed = FALSE
    /\ cresult = "none"

CIdle ==
    /\ cpc = "idle"
    /\ srcRoot = "none"
    /\ srcTree = EmptyTree
    /\ exclusions = [some |-> FALSE, list |-> {}]
    /\ dstRoot = "none"
    /\ dstTree = EmptyTree
    /\ dstRoot0 = "none"
    /\ dstTree0 = EmptyTree
    /\ visited = {}
    /\ last = <<>>
    /\ copyFailed = {}
    /\ dirFailed = FALSE
    /\ walkFailed = FALSE
    /\ cresult = "none"

\* variant: only !src.exists()
SourceMissingExistsOnly(kind) == kind = "none"

\* !src.exists() || !src.is_dir()
SourceMissing(kind) == kind # "dir"

\* the prefixes of p, p included, the empty path excluded
Ancestors(p) == { SubSeq(p, 1, k) : k \in 1..Len(p) }

\* fs::create_dir_all(dst.join(p)) can succeed: no file is in the way
CanCreateDirAll(root, tree, p) ==
    /\ root # "file"
    /\ \A q \in Ancestors(p) : tree[q] # "file"

\* the tree after a successful fs::create_dir_all(dst.join(p))
CreateDirAll(tree, p) ==
    [q \in RelPaths |-> IF q \in Ancestors(p) THEN "dir" ELSE tree[q]]

\* lines 121-124: the source check and fs::create_dir_all(dst)?
CopyCheck ==
    /\ cpc = "start"
    /\ IF SourceMissing(srcRoot)
       THEN /\ cpc' = "done"
            /\ cresult' = "SourceNotFound"
            /\ UNCHANGED <<dstRoot, dirFailed>>
       ELSE \/ /\ CanCreateDirAll(dstRoot, dstTree, <<>>)
               /\ dstRoot' = "dir"
               /\ cpc' = "walk"
               /\ UNCHANGED <<cresult, dirFailed>>
            \/ /\ dstRoot # "dir"
               /\ cpc' = "done"
               /\ cresult' = "IoError"
               /\ dirFailed' = TRUE
               /\ UNCHANGED dstRoot
    /\ UNCHANGED <<srcRoot, srcTree, exclusions, dstTree, dstRoot0, dstTree0,
                   visited, last, copyFailed, walkFailed>>

\* the entries of directory d (the empty path is src itself)
Children(d) ==
    { q \in RelPaths : Len(q) = Len(d) + 1 /\ Parent(q) = d /\ srcTree[q] # "none" }

\* WalkDir::new(src).min_depth(1): depth first, a directory before its
\* entries, the entries of one directory in any order. The directories still
\* open are the prefixes of the entry yielded last.
OpenDirs == { d \in Ancestors(last) \cup {<<>>} : Children(d) \ visited # {} }
NextEntries ==
    IF OpenDirs = {} THEN {}
    ELSE LET d == CHOOSE x \in OpenDirs : \A y \in OpenDirs : Len(y) <= Len(x)
         IN  Children(d) \ visited

\* variant: the prefix test without the path separator
MatchesExclusionNoSeparator(rel_str, ex) ==
    \/ rel_str = ex
    \/ StartsWith(rel_str, ex)

\* rel_str == ex || rel_str.starts_with(&format!("{}/", ex))
MatchesExclusion(rel_str, ex) ==
    \/ rel_str = ex
    \/ StartsWith(rel_str, ex \o <<"/">>)

\* the `if let Some(exclusions)` test of line 129-131
IsExcluded(p) ==
    /\ exclusions.some
    /\ \E ex \in exclusions.list : MatchesExclusion(PathStr(p), ex)

\* variant: the error of fs::copy is returned with `?`
CopyFileFailedAborts(made, p) ==
    /\ dstTree' = made
    /\ copyFailed' = copyFailed \cup {p}
    /\ cpc' = "done"
    /\ cresult' = "IoError"
    /\ UNCHANGED dirFailed

\* lines 145-150: fs::copy returned Err; unwrap_or_else swallows it and the
\* loop goes on. The target is left as it was, or created and left incomplete.
CopyFileFailed(made, p) ==
    /\ \/ dstTree' = made
       \/ /\ made[p] = "none"
          /\ dstTree' = [made EXCEPT ![p] = "file"]
    /\ copyFailed' = copyFailed \cup {p}
    /\ UNCHANGED <<cpc, cresult, dirFailed>>

\* lines 138-151: the entry is created or copied under dst
CopyToTarget(p) ==
    LET dirTarget == IF srcTree[p] = "dir" THEN p ELSE Parent(p)
        made == CreateDirAll(dstTree, dirTarget)
    IN  \/ \* a create_dir_all has a directory to create and fails: `?` returns
           /\ \E q \in Ancestors(dirTarget) : dstTree[q] # "dir"
           /\ cpc' = "done"
           /\ cresult' = "IoError"
           /\ dirFailed' = TRUE
           /\ UNCHANGED <<dstTree, copyFailed>>
        \/ \* the directory is created
           /\ srcTree[p] = "dir"
           /\ CanCreateDirAll(dstRoot, dstTree, dirTarget)
           /\ dstTree' = made
           /\ UNCHANGED <<cpc, cresult, dirFailed, copyFailed>>
        \/ \* fs::copy succeeds
           /\ srcTree[p] = "file"
           /\ CanCreateDirAll(dstRoot, dstTree, dirTarget)
           /\ made[p] # "dir"
           /\ dstTree' = [made EXCEPT ![p] = "file"]
           /\ UNCHANGED <<cpc, cresult, dirFailed, copyFailed>>
        \/ \* fs::copy fails
           /\ srcTree[p] = "file"
           /\ CanCreateDirAll(dstRoot, dstTree, dirTarget)
           /\ CopyFileFailed(made, p)

\* lines 125-152: one iteration of the loop over the walk
CopyEntry(p) ==
    /\ cpc = "walk"
    /\ p \in NextEntries
    /\ visited' = visited \cup {p}
    /\ last' = p
    /\ IF IsExcluded(p)
       THEN UNCHANGED <<cpc, cresult, dstTree, copyFailed, dirFailed>>
       ELSE CopyToTarget(p)
    /\ UNCHANGED <<srcRoot, srcTree, exclusions, dstRoot, dstRoot0, dstTree0,
                   walkFailed>>

\* line 126: the walk yields an error for a directory it cannot read
CopyWalkError ==
    /\ cpc = "walk"
    /\ \/ last = <<>> /\ visited = {}
       \/ last # <<>> /\ srcTree[last] = "dir"
    /\ cpc' = "done"
    /\ cresult' = "IoError"
    /\ walkFailed' = TRUE
    /\ UNCHANGED <<srcRoot, srcTree, exclusions, dstRoot, dstTree, dstRoot0,
                   dstTree0, visited, last, copyFailed, dirFailed>>

\* line 153: the walk is exhausted
CopyDone ==
    /\ cpc = "walk"
    /\ NextEntries = {}
    /\ cpc' = "done"
    /\ cresult' = "Ok"
    /\ UNCHANGED <<srcRoot, srcTree, exclusions, dstRoot, dstTree, dstRoot0,
                   dstTree0, visited, last, copyFailed, dirFailed, walkFailed>>

CNext == CopyCheck \/ (\E p \in RelPaths : CopyEntry(p)) \/ CopyWalkError \/ CopyDone

(***************************************************************************)
(* copy_encore_components                                                  *)
(***************************************************************************)
\* the subpaths the assembler expects: the first two below
\* <parent>/workspace/apps/encore/.encore, the others below encore_dir
ConfigSubPaths == {"build", "manifest.json"}
\* let files = ["build-info.json", "infra.config.json", "meta"]
files == <<"build-info.json", "infra.config.json", "meta">>
EncoreSubPaths == {"runtimes"} \cup { files[i] : i \in 1..Len(files) }
SubPaths == ConfigSubPaths \cup EncoreSubPaths

\* the targets under output_dir
Targets == {"artifacts"} \cup SubPaths

AInit ==
    /\ apc = "start"
    /\ encoreKind \in Kinds
    /\ configKind \in Kinds
    /\ subKind \in [SubPaths -> Kinds]
    /\ \A f \in ConfigSubPaths : configKind # "dir" => subKind[f] = "none"
    /\ \A f \in EncoreSubPaths : encoreKind # "dir" => subKind[f] = "none"
    /\ outTree = [t \in Targets |-> "none"]
    /\ fileIdx = 1
    /\ ioFault = FALSE
    /\ aresult = "none"

AIdle ==
    /\ apc = "idle"
    /\ encoreKind = "none"
    /\ configKind = "none"
    /\ subKind = [f \in SubPaths |-> "none"]
    /\ outTree = [t \in Targets |-> "none"]
    /\ fileIdx = 1
    /\ ioFault = FALSE
    /\ aresult = "none"

\* a filesystem call returns Err and `?` returns it from the assembler
AsmFail ==
    /\ apc' = "done"
    /\ aresult' = "IoError"
    /\ ioFault' = TRUE
    /\ UNCHANGED <<outTree, fileIdx>>

\* fs::create_dir_all(&target)? or copy_dir(&source, &target, None, ..)? of
\* an existing directory: the target directory exists afterwards, or the
\* call returns an error
AsmMakeDir(target, then) ==
    \/ /\ outTree' = [outTree EXCEPT ![target] = "dir"]
       /\ apc' = then
       /\ UNCHANGED <<aresult, ioFault, fileIdx>>
    \/ AsmFail

\* create_dir_all(parent)? and fs::copy(&source, &target)? of one path:
\* fs::copy of a directory always fails
AsmCopyFile(source, target, then) ==
    \/ /\ subKind[source] = "file"
       /\ outTree' = [outTree EXCEPT ![target] = "file"]
       /\ apc' = then
       /\ UNCHANGED <<aresult, ioFault, fileIdx>>
    \/ AsmFail

\* variant: a missing subpath is returned as an error
AsmSkipAborts(then) ==
    /\ apc' = "done"
    /\ aresult' = "IoError"
    /\ UNCHANGED <<outTree, ioFault, fileIdx>>

\* a missing subpath: a warning is logged and the next step follows
AsmSkip(then) ==
    /\ apc' = then
    /\ UNCHANGED <<outTree, aresult, ioFault, fileIdx>>

\* lines 159-167 and 191-193, 223-226: the encore and .encore directory tests
\* and fs::create_dir_all(&artifacts_dir)?
AsmStart ==
    /\ apc = "start"
    /\ IF encoreKind # "dir"
       THEN /\ apc' = "done"
            /\ aresult' = "Ok"
            /\ UNCHANGED <<outTree, ioFault, fileIdx>>
       ELSE IF configKind = "dir"
       THEN AsmMakeDir("artifacts", "build")
       ELSE AsmSkip("runtimes")
    /\ UNCHANGED <<encoreKind, configKind, subKind>>

\* lines 170-177: the build folder
AsmBuild ==
    /\ apc = "build"
    /\ IF subKind["build"] = "dir"
       THEN AsmMakeDir("build", "manifest")
       ELSE AsmSkip("manifest")
    /\ UNCHANGED <<encoreKind, configKind, subKind>>

\* lines 180-190: manifest.json
AsmManifest ==
    /\ apc = "manifest"
    /\ IF subKind["manifest.json"] # "none"
       THEN AsmCopyFile("manifest.json", "manifest.json", "runtimes")
       ELSE AsmSkip("runtimes")
    /\ UNCHANGED <<encoreKind, configKind, subKind>>

\* lines 196-203: the runtimes directory
AsmRuntimes ==
    /\ apc = "runtimes"
    /\ IF subKind["runtimes"] = "dir"
       THEN AsmMakeDir("runtimes", "files")
       ELSE AsmSkip("files")
    /\ UNCHANGED <<encoreKind, configKind, subKind>>

\* lines 206-222: one iteration of `for file in &files`
AsmFile ==
    /\ apc = "files"
    /\ fileIdx <= Len(files)
    /\ LET file == files[fileIdx]
       IN  \/ /\ IF subKind[file] = "none"
                 THEN UNCHANGED <<outTree, apc, aresult, ioFault>>
                 ELSE IF subKind[file] = "dir"
                 THEN \/ /\ outTree' = [outTree EXCEPT ![file] = "dir"]
                         /\ UNCHANGED <<apc, aresult, ioFault>>
                      \/ /\ apc' = "done"
                         /\ aresult' = "IoError"
                         /\ ioFault' = TRUE
                         /\ UNCHANGED outTree
                 ELSE \/ /\ outTree' = [outTree EXCEPT ![file] = "file"]
                         /\ UNCHANGED <<apc, aresult, ioFault>>
                      \/ /\ apc' = "done"
                         /\ aresult' = "IoError"
                         /\ ioFault' = TRUE
                         /\ UNCHANGED outTree
              /\ fileIdx' = fileIdx + 1
    /\ UNCHANGED <<encoreKind, configKind, subKind>>

\* line 226: Ok(()) after the loop
AsmDone ==
    /\ apc = "files"
    /\ fileIdx > Len(files)
    /\ apc' = "done"
    /\ aresult' = "Ok"
    /\ UNCHANGED <<encoreKind, configKind, subKind, outTree, fileIdx, ioFault>>

ANext == AsmStart \/ AsmBuild \/ AsmManifest \/ AsmRuntimes \/ AsmFile \/ AsmDone

(***************************************************************************)
(* main                                                                    *)
(***************************************************************************)
MaxFound == 2

\* the steps of main in program order
Steps ==
    << "clean_old", "build", "save", "remove", "temp_dir", "extract_archive",
       "select_layer", "layer_dir", "extract_layer_gz", "extract_layer_plain",
       "output_dir", "assemble", "cleanup", "remove_tar" >>

StepNames == { Steps[i] : i \in 1..Len(Steps) }

\* where the extracted layer holds `encore` directories: -1 for one at its
\* top, otherwise the number of them the recursive search finds
EncorePlaces == (-1)..MaxFound

PInit ==
    /\ pc = "clean_old"
    /\ fs \in [old_output : BOOLEAN, tar : BOOLEAN, temp_base : BOOLEAN,
               work : {FALSE}, layer : {FALSE}, final_output : BOOLEAN]
    /\ fs0 = fs
    /\ image = FALSE
    /\ encoreAt \in EncorePlaces
    /\ found = 0
    /\ log = <<>>
    /\ exitCode = -1

PIdle ==
    /\ pc = "idle"
    /\ fs = [old_output |-> FALSE, tar |-> FALSE, temp_base |-> FALSE,
             work |-> FALSE, layer |-> FALSE, final_output |-> FALSE]
    /\ fs0 = fs
    /\ image = FALSE
    /\ encoreAt = 0
    /\ found = 0
    /\ log = <<>>
    /\ exitCode = -1

\* the TempDir values temp_dir and layer_dir are dropped when main returns or
\* unwinds: their directories are removed
DropTempDirs(f) == [f EXCEPT !.work = FALSE, !.layer = FALSE]

\* variant: the failed step is run again
FailRetries(step) ==
    /\ log' = Append(log, [step |-> step, ok |-> FALSE])
    /\ UNCHANGED <<pc, exitCode, fs, image>>

\* `?` on an Err: main returns the error, the process exits with status 1
Fail(step) ==
    /\ pc' = "exit"
    /\ exitCode' = 1
    /\ log' = Append(log, [step |-> step, ok |-> FALSE])
    /\ fs' = DropTempDirs(fs)
    /\ UNCHANGED image

\* the step succeeded: main goes on with the statement `next`
Pass(step, next) ==
    /\ pc' = next
    /\ log' = Append(log, [step |-> step, ok |-> TRUE])
    /\ UNCHANGED exitCode

\* lines 238-246: env::current_dir()? and the removal of extracted_output
CleanOld ==
    /\ pc = "clean_old"
    /\ \/ /\ Pass("clean_old", "build")
          /\ fs' = [fs EXCEPT !.old_output = FALSE]
          /\ UNCHANGED image
       \/ Fail("clean_old")
    /\ UNCHANGED <<fs0, encoreAt, found>>

\* line 252: docker_build(&image_tag, &config)?
Build ==
    /\ pc = "build"
    /\ \/ /\ Pass("build", "save")
          /\ image' = TRUE
          /\ UNCHANGED fs
       \/ Fail("build")
    /\ UNCHANGED <<fs0, encoreAt, found>>

\* line 253: docker_save(&image_tag, &tar_path, &config)?
Save ==
    /\ pc = "save"
    /\ \/ /\ Pass("save", "remove")
          /\ fs' = [fs EXCEPT !.tar = TRUE]
          /\ UNCHANGED image
       \/ Fail("save")
    /\ UNCHANGED <<fs0, encoreAt, found>>

\* line 254: docker_remove(&image_tag, &config)?
Remove ==
    /\ pc = "remove"
    /\ \/ /\ Pass("remove", "temp_dir")
          /\ image' = FALSE
          /\ UNCHANGED fs
       \/ Fail("remove")
    /\ UNCHANGED <<fs0, encoreAt, found>>

\* lines 257-260: fs::create_dir_all(&temp_base)? and the work_ TempDir
TempDir ==
    /\ pc = "temp_dir"
    /\ \/ /\ Pass("temp_dir", "extract_archive")
          /\ fs' = [fs EXCEPT !.temp_base = TRUE, !.work = TRUE]
          /\ UNCHANGED image
       \/ \* create_dir_all fails
          /\ ~fs.temp_base
          /\ Fail("temp_dir")
       \/ \* tempdir_in fails after temp_base was created
          /\ pc' = "exit"
          /\ exitCode' = 1
          /\ log' = Append(log, [step |-> "temp_dir", ok |-> FALSE])
          /\ fs' = [fs EXCEPT !.temp_base = TRUE]
          /\ UNCHANGED image
    /\ UNCHANGED <<fs0, encoreAt, found>>

\* line 263: run_command("tar", &["xf", ..], Some(temp_dir.path()))?
ExtractArchive ==
    /\ pc = "extract_archive"
    /\ \/ /\ Pass("extract_archive", "select_layer")
          /\ UNCHANGED <<fs, image>>
       \/ Fail("extract_archive")
    /\ UNCHANGED <<fs0, encoreAt, found>>

\* lines 266-271: parse_manifest(&manifest_path, &config)?, which returns
\* Ok, returns Err, or panics (the process then unwinds and exits with 101)
SelectLayer ==
    /\ pc = "select_layer"
    /\ \/ /\ Pass("select_layer", "layer_dir")
          /\ UNCHANGED <<fs, image>>
       \/ Fail("select_layer")
       \/ /\ pc' = "exit"
          /\ exitCode' = 101
          /\ log' = Append(log, [step |-> "select_layer", ok |-> FALSE])
          /\ fs' = DropTempDirs(fs)
          /\ UNCHANGED image
    /\ UNCHANGED <<fs0, encoreAt, found>>

\* line 274: the layer_ TempDir
LayerDir ==
    /\ pc = "layer_dir"
    /\ \/ /\ Pass("layer_dir", "extract_layer_gz")
          /\ fs' = [fs EXCEPT !.layer = TRUE]
          /\ UNCHANGED image
       \/ Fail("layer_dir")
    /\ UNCHANGED <<fs0, encoreAt, found>>

\* lines 276-278: tar xzvf; its error is kept, not returned
ExtractLayerGz ==
    /\ pc = "extract_layer_gz"
    /\ \/ Pass("extract_layer_gz", "output_dir")
       \/ /\ pc' = "extract_layer_plain"
          /\ log' = Append(log, [step |-> "extract_layer_gz", ok |-> FALSE])
          /\ UNCHANGED exitCode
    /\ UNCHANGED <<fs, fs0, image, encoreAt, found>>

\* line 279: tar xvf, only after the gzip attempt failed
ExtractLayerPlain ==
    /\ pc = "extract_layer_plain"
    /\ \/ /\ Pass("extract_layer_plain", "output_dir")
          /\ UNCHANGED <<fs, image>>
       \/ Fail("extract_layer_plain")
    /\ UNCHANGED <<fs0, encoreAt, found>>

\* lines 283-285: fs::create_dir_all(&final_output)?
OutputDir ==
    /\ pc = "output_dir"
    /\ \/ /\ Pass("output_dir", "assemble")
          /\ fs' = [fs EXCEPT !.final_output = TRUE]
          /\ UNCHANGED image
       \/ /\ ~fs.final_output
          /\ Fail("output_dir")
    /\ UNCHANGED <<fs0, encoreAt, found>>

\* lines 288-290: the layer has `encore` at its top and
\* copy_encore_components(&encore_dir, ..)? runs; otherwise the search starts
Assemble ==
    /\ pc = "assemble"
    /\ IF encoreAt = -1
       THEN \/ /\ Pass("assemble", "cleanup")
               /\ UNCHANGED <<fs, image>>
            \/ Fail("assemble")
       ELSE /\ pc' = "search"
            /\ UNCHANGED <<fs, image, log, exitCode>>
    /\ UNCHANGED <<fs0, encoreAt, found>>

\* lines 295-301: copy_encore_components(entry.path(), ..)? on the next
\* `encore` directory of the walk
SearchFound ==
    /\ pc = "search"
    /\ found < encoreAt
    /\ \/ /\ found' = found + 1
          /\ UNCHANGED <<pc, fs, image, log, exitCode>>
       \/ /\ Fail("assemble")
          /\ UNCHANGED found
    /\ UNCHANGED <<fs0, encoreAt>>

\* lines 302-307: the walk is over
SearchDone ==
    /\ pc = "search"
    /\ found = encoreAt
    /\ Pass("assemble", "cleanup")
    /\ UNCHANGED <<fs, fs0, image, encoreAt, found>>

\* line 311: fs::remove_dir_all(&temp_base)?
Cleanup ==
    /\ pc = "cleanup"
    /\ \/ /\ Pass("cleanup", "remove_tar")
          /\ fs' = [fs EXCEPT !.temp_base = FALSE, !.work = FALSE, !.layer = FALSE]
          /\ UNCHANGED image
       \/ Fail("cleanup")
    /\ UNCHANGED <<fs0, encoreAt, found>>

\* lines 312-316: the removal of the tar file and Ok(())
RemoveTar ==
    /\ pc = "remove_tar"
    /\ \/ /\ pc' = "exit"
          /\ exitCode' = 0
          /\ log' = Append(log, [step |-> "remove_tar", ok |-> TRUE])
          /\ fs' = [fs EXCEPT !.tar = FALSE]
          /\ UNCHANGED image
       \/ /\ fs.tar
          /\ Fail("remove_tar")
    /\ UNCHANGED <<fs0, encoreAt, found>>

PNext ==
    \/ CleanOld \/ Build \/ Save \/ Remove \/ TempDir \/ ExtractArchive
    \/ SelectLayer \/ LayerDir \/ ExtractLayerGz \/ ExtractLayerPlain
    \/ OutputDir \/ Assemble \/ SearchFound \/ SearchDone \/ Cleanup
    \/ RemoveTar

(***************************************************************************)
(* Specifications: each routine run on every input of its bounded domain,  *)
(* the state of the other routines left alone.                             *)
(***************************************************************************)
InitManifest == MInit /\ CIdle /\ AIdle /\ PIdle
NextManifest ==
    \/ ParseRead /\ UNCHANGED <<cvars, avars, pvars>>
    \/ ParseIndex /\ UNCHANGED <<cvars, avars, pvars>>
    \/ ParseLoop /\ UNCHANGED <<cvars, avars, pvars>>
    \/ ParseFinish /\ UNCHANGED <<cvars, avars, pvars>>
SpecManifest == InitManifest /\ [][NextManifest]_vars

InitCopy == MIdle /\ CInit /\ AIdle /\ PIdle
NextCopy ==
    \/ CopyCheck /\ UNCHANGED <<mvars, avars, pvars>>
    \/ (\E p \in RelPaths : CopyEntry(p)) /\ UNCHANGED <<mvars, avars, pvars>>
    \/ CopyWalkError /\ UNCHANGED <<mvars, avars, pvars>>
    \/ CopyDone /\ UNCHANGED <<mvars, avars, pvars>>
SpecCopy == InitCopy /\ [][NextCopy]_vars

InitAsm == MIdle /\ CIdle /\ AInit /\ PIdle
NextAsm ==
    \/ AsmStart /\ UNCHANGED <<mvars, cvars, pvars>>
    \/ AsmBuild /\ UNCHANGED <<mvars, cvars, pvars>>
    \/ AsmManifest /\ UNCHANGED <<mvars, cvars, pvars>>
    \/ AsmRuntimes /\ UNCHANGED <<mvars, cvars, pvars>>
    \/ AsmFile /\ UNCHANGED <<mvars, cvars, pvars>>
    \/ AsmDone /\ UNCHANGED <<mvars, cvars, pvars>>
SpecAsm == InitAsm /\ [][NextAsm]_vars

InitMain == MIdle /\ CIdle /\ AIdle /\ PInit
NextMain ==
    \/ CleanOld /\ UNCHANGED <<mvars, cvars, avars>>
    \/ Build /\ UNCHANGED <<mvars, cvars, avars>>
    \/ Save /\ UNCHANGED <<mvars, cvars, avars>>
    \/ Remove /\ UNCHANGED <<mvars, cvars, avars>>
    \/ TempDir /\ UNCHANGED <<mvars, cvars, avars>>
    \/ ExtractArchive /\ UNCHANGED <<mvars, cvars, avars>>
    \/ SelectLayer /\ UNCHANGED <<mvars, cvars, avars>>
    \/ LayerDir /\ UNCHANGED <<mvars, cvars, avars>>
    \/ ExtractLayerGz /\ UNCHANGED <<mvars, cvars, avars>>
    \/ ExtractLayerPlain /\ UNCHANGED <<mvars, cvars, avars>>
    \/ OutputDir /\ UNCHANGED <<mvars, cvars, avars>>
    \/ Assemble /\ UNCHANGED <<mvars, cvars, avars>>
    \/ SearchFound /\ UNCHANGED <<mvars, cvars, avars>>
    \/ SearchDone /\ UNCHANGED <<mvars, cvars, avars>>
    \/ Cleanup /\ UNCHANGED <<mvars, cvars, avars>>
    \/ RemoveTar /\ UNCHANGED <<mvars, cvars, avars>>
SpecMain == InitMain /\ [][NextMain]_vars

(***************************************************************************)
(* Properties of parse_manifest (under SpecManifest).                      *)
(***************************************************************************)
\* parse_manifest got as far as the mapping of the first entry
HasMapping ==
    /\ docKind = "array"
    /\ Len(manifest) >= 1
    /\ manifest[1].t = "object"

TheMapping == manifest[1].m

\* a size that is a non-negative integer
Parseable(size) == size.t = "int" /\ size.v \in Nat

\* the key without a leading "sha256:", the key itself when it has none
HasShaPrefix(d) ==
    /\ Len(d) >= 7
    /\ \A k \in 1..7 : d[k] = Sha256Prefix[k]
WithoutShaPrefix(d) ==
    IF HasShaPrefix(d) THEN [k \in 1..(Len(d) - 7) |-> d[k + 7]] ELSE d

\* C1: for a mapping of N >= 1 entries with pairwise distinct non-negative
\* integer sizes, parse_manifest succeeds and returns the key of the entry
\* with the maximum size, without its leading "sha256:".
C1_LargestSelected ==
    ( /\ mpc = "done"
      /\ HasMapping
      /\ Len(TheMapping) >= 1
      /\ \A i \in 1..Len(TheMapping) : Parseable(TheMapping[i].size)
      /\ \A i, j \in 1..Len(TheMapping) :
            i # j => TheMapping[i].size.v # TheMapping[j].size.v )
    => /\ mresult = "Ok"
       /\ \E i \in 1..Len(TheMapping) :
            /\ \A j \in 1..Len(TheMapping) :
                  TheMapping[j].size.v <= TheMapping[i].size.v
            /\ moutput = WithoutShaPrefix(TheMapping[i].digest)

\* the entries with a parseable size that is the largest of the mapping
MaxEntries ==
    { i \in 1..Len(TheMapping) :
        /\ Parseable(TheMapping[i].size)
        /\ \A j \in 1..Len(TheMapping) :
              Parseable(TheMapping[j].size)
                  => TheMapping[j].size.v <= TheMapping[i].size.v }

\* C2: when several entries share the maximum size, parse_manifest returns
\* the one that comes first in the iteration order of the mapping.
C2_FirstOfTheTied ==
    ( /\ mpc = "done"
      /\ HasMapping
      /\ Cardinality(MaxEntries) >= 2 )
    => /\ mresult = "Ok"
       /\ \E i \in MaxEntries :
            /\ \A j \in MaxEntries : i <= j
            /\ moutput = WithoutShaPrefix(TheMapping[i].digest)

\* C3: parse_manifest returns the ParseError value when the document is not
\* valid JSON or its top-level array is empty.
C3_ParseErrorReturned ==
    ( /\ mpc = "done"
      /\ \/ docKind = "notjson"
         \/ docKind = "array" /\ manifest = <<>> )
    => mresult = "ParseError"

\* C4: parse_manifest fails with NoLayersFound and returns no identifier when
\* the LayerSources mapping of the first entry is empty, absent or has no
\* entry with a parseable size; an entry without a parseable size is never
\* the selected one.
C4_NoLayersFound ==
    /\ ( /\ mpc = "done"
         /\ docKind = "array"
         /\ Len(manifest) >= 1
         /\ \/ manifest[1].t # "object"
            \/ \A i \in 1..Len(TheMapping) : ~Parseable(TheMapping[i].size) )
       => /\ mresult = "NoLayersFound"
          /\ moutput = <<>>
    /\ largest_layer.some
       => \E i \in 1..Len(TheMapping) :
            /\ i < idx
            /\ TheMapping[i].digest = largest_layer.v
            /\ Parseable(TheMapping[i].size)
    /\ mresult = "Ok" => largest_layer.some

\* a mapping whose entries all lack a parseable size was read to its end
C4_Witness ==
    /\ mpc = "done"
    /\ HasMapping
    /\ Len(TheMapping) >= 2
    /\ \E i \in 1..Len(TheMapping) : TheMapping[i].size.t = "int"
    /\ \E i \in 1..Len(TheMapping) : TheMapping[i].size.t = "string"
    /\ \A i \in 1..Len(TheMapping) : ~Parseable(TheMapping[i].size)
    /\ idx = Len(TheMapping) + 1
    /\ mresult = "NoLayersFound"

(***************************************************************************)
(* Properties of copy_dir (under SpecCopy).                                *)
(***************************************************************************)
\* s begins with ex and a '/' right after it
BeginsWithDir(s, ex) ==
    /\ Len(s) > Len(ex)
    /\ \A k \in 1..Len(ex) : s[k] = ex[k]
    /\ s[Len(ex) + 1] = "/"

\* the relative path neither equals an exclusion string nor lies under one
Kept(p) ==
    exclusions.some =>
        \A ex \in exclusions.list :
            /\ PathStr(p) # ex
            /\ ~BeginsWithDir(PathStr(p), ex)

CopiedAll ==
    /\ cpc = "done"
    /\ cresult = "Ok"
    /\ copyFailed = {}

\* C5 as stated: when no file copy fails, dst holds exactly the relative
\* paths of src that are kept.
C5_ExactlyTheKept ==
    CopiedAll =>
        \A p \in RelPaths :
            dstTree[p] # "none" <=> (srcTree[p] # "none" /\ Kept(p))

\* C5 amended: when no file copy fails and copy_dir returns Ok, dst holds
\* exactly the relative paths it held before the call and the relative paths
\* of src that are kept.
C5_KeptAddedToDst ==
    CopiedAll =>
        \A p \in RelPaths :
            dstTree[p] # "none"
                <=> (dstTree0[p] # "none" \/ (srcTree[p] # "none" /\ Kept(p)))

\* exclusion "a": directory a and a/c are skipped, the sibling ab is copied,
\* and the file c that dst held before is still there
C5_Witness ==
    /\ CopiedAll
    /\ exclusions = [some |-> TRUE, list |-> {<<"a">>}]
    /\ srcTree[<<NameA>>] = "dir"
    /\ srcTree[<<NameA, NameC>>] = "file"
    /\ srcTree[<<NameAB>>] = "dir"
    /\ srcTree[<<NameAB, NameC>>] = "file"
    /\ srcTree[<<NameC>>] = "none"
    /\ dstTree0[<<NameC>>] = "file"
    /\ dstTree[<<NameA>>] = "none"
    /\ dstTree[<<NameA, NameC>>] = "none"
    /\ dstTree[<<NameAB>>] = "dir"
    /\ dstTree[<<NameAB, NameC>>] = "file"
    /\ dstTree[<<NameC>>] = "file"

\* C6: a failed file copy does not stop the walk: every other entry that is
\* not excluded is copied and copy_dir returns Ok; copy_dir on an existing
\* source directory returns an error only when a directory could not be
\* created or the source tree could not be read.
C6_FileFailureSwallowed ==
    (cpc = "done" /\ srcRoot = "dir") =>
        /\ cresult \in {"Ok", "IoError"}
        /\ cresult = "Ok" <=> (~dirFailed /\ ~walkFailed)
        /\ cresult = "Ok" =>
              \A p \in RelPaths :
                  (srcTree[p] # "none" /\ Kept(p) /\ p \notin copyFailed)
                      => dstTree[p] = srcTree[p]

\* a file copy failed, the walk went on to its end and the file it visited
\* last was copied
C6_Witness ==
    /\ cpc = "done"
    /\ cresult = "Ok"
    /\ copyFailed # {}
    /\ last \notin copyFailed
    /\ srcTree[last] = "file"
    /\ Kept(last)
    /\ dstTree0[last] = "none"
    /\ dstTree[last] = "file"
    /\ \E d \in RelPaths : srcTree[d] = "dir" /\ dstTree0[d] = "none" /\ dstTree[d] = "dir"

\* C7: on a source that does not exist or is not a directory copy_dir fails
\* with SourceNotFound and the destination is as it was: not created, and
\* nothing copied.
C7_SourceNotFound ==
    (cpc = "done" /\ srcRoot # "dir") =>
        /\ cresult = "SourceNotFound"
        /\ dstRoot = dstRoot0
        /\ dstTree = dstTree0

\* the source is a file, the destination did not exist and still does not
C7_Witness ==
    /\ cpc = "done"
    /\ srcRoot = "file"
    /\ dstRoot0 = "none"
    /\ dstRoot = "none"
    /\ cresult = "SourceNotFound"

(***************************************************************************)
(* Properties of main (under SpecMain).                                    *)
(***************************************************************************)
Ran(step, ok) == \E i \in 1..Len(log) : log[i] = [step |-> step, ok |-> ok]

\* C8: when the pipeline has finished, on the success path and on every
\* failure path after the temporary workspace was created, the directories
\* docker_extract_temp, work_ and layer_ that the run created are gone.
C8_TempDirsRemoved ==
    ( /\ pc = "exit"
      /\ ~fs0.temp_base
      /\ Ran("temp_dir", TRUE) )
    => /\ ~fs.temp_base
       /\ ~fs.work
       /\ ~fs.layer

StepIndex(step) == CHOOSE i \in 1..Len(Steps) : Steps[i] = step

\* the layer was extracted by one of the two attempts
LayerExtractedBefore(i) ==
    \E j \in 1..(i - 1) :
        /\ log[j].step \in {"extract_layer_gz", "extract_layer_plain"}
        /\ log[j].ok

\* C9: main runs its steps in program order; a step starts only after every
\* earlier step succeeded; the first failure ends the run with a non-zero
\* exit status and no later step, no retry and no rollback; the layer
\* extraction fails only when the compressed and the uncompressed attempt
\* both fail.
C9_LinearPipeline ==
    /\ \A i \in 1..Len(log) :
          /\ \* program order, no step twice
             i > 1 => StepIndex(log[i - 1].step) < StepIndex(log[i].step)
          /\ \* every earlier step succeeded
             \A k \in 1..(StepIndex(log[i].step) - 1) :
                IF Steps[k] \in {"extract_layer_gz", "extract_layer_plain"}
                THEN log[i].step = "extract_layer_plain" \/ LayerExtractedBefore(i)
                ELSE \E j \in 1..(i - 1) : log[j] = [step |-> Steps[k], ok |-> TRUE]
          /\ \* the uncompressed attempt follows a failed compressed attempt
             log[i].step = "extract_layer_plain"
                => (i > 1 /\ log[i - 1] = [step |-> "extract_layer_gz", ok |-> FALSE])
          /\ \* a failure is the last step and ends the run
             (~log[i].ok /\ log[i].step # "extract_layer_gz")
                => (i = Len(log) /\ pc = "exit" /\ exitCode \notin {-1, 0})
          /\ \* the failed compressed attempt alone does not end the run
             (~log[i].ok /\ log[i].step = "extract_layer_gz" /\ i = Len(log))
                => (pc = "extract_layer_plain" /\ exitCode = -1)
    /\ pc = "exit" =>
          /\ exitCode # -1
          /\ exitCode = 0 <=> Ran("remove_tar", TRUE)
          /\ \* nothing an earlier step made is undone by a failure
             exitCode # 0 =>
                /\ Ran("save", TRUE) => fs.tar
                /\ (Ran("build", TRUE) /\ ~Ran("remove", TRUE)) => image
                /\ Ran("output_dir", TRUE) => fs.final_output
    /\ pc # "exit" => exitCode = -1

\* both extraction attempts failed and the run ended with an error
C9_Witness ==
    /\ pc = "exit"
    /\ exitCode = 1
    /\ Len(log) = 10
    /\ log[9] = [step |-> "extract_layer_gz", ok |-> FALSE]
    /\ log[10] = [step |-> "extract_layer_plain", ok |-> FALSE]
    /\ fs.tar

(***************************************************************************)
(* Properties of copy_encore_components (under SpecAsm).                   *)
(***************************************************************************)
\* C10: for every combination of present and absent expected subpaths the
\* assembler returns Ok unless a filesystem call fails, and every expected
\* subpath that is present has been copied.
C10_StepsIndependent ==
    apc = "done" =>
        /\ aresult = "Ok" <=> ~ioFault
        /\ (aresult = "Ok" /\ encoreKind = "dir") =>
              /\ subKind["build"] = "dir"
                    => (outTree["artifacts"] = "dir" /\ outTree["build"] = "dir")
              /\ subKind["manifest.json"] = "file" => outTree["manifest.json"] = "file"
              /\ subKind["runtimes"] = "dir" => outTree["runtimes"] = "dir"
              /\ \A i \in 1..Len(files) :
                    subKind[files[i]] # "none" => outTree[files[i]] = subKind[files[i]]
        /\ \A f \in SubPaths : subKind[f] = "none" => outTree[f] = "none"

\* .encore, runtimes and build-info.json are missing, infra.config.json and
\* meta are there and were copied
C10_Witness ==
    /\ apc = "done"
    /\ aresult = "Ok"
    /\ encoreKind = "dir"
    /\ configKind = "none"
    /\ subKind["runtimes"] = "none"
    /\ subKind["build-info.json"] = "none"
    /\ subKind["infra.config.json"] = "file"
    /\ subKind["meta"] = "dir"
    /\ outTree["infra.config.json"] = "file"
    /\ outTree["meta"] = "dir"

====
